---- MODULE Spec2Model ----
(***************************************************************************)
(* Model of the E07-400MM (CC1101 clone) quirk driver of RadioLib.         *)
(*                                                                         *)
(* src/src/hal/ESP-IDF/EspHal.hpp holds two variants of E07400MM.cpp:      *)
(* the first at lines 849-1028, the second at lines 1030-1289.  The        *)
(* variable `variant` says which of the two is the one that was built.     *)
(*                                                                         *)
(* Bytes are integers 0..255.  Frequencies are integers in Hz, RSSI values *)
(* are integers in half-dB units (the float arithmetic of the code is      *)
(* exact on the inputs the model draws).                                   *)
(*                                                                         *)
(* The CC1101 base class (startReceive, standby, setFrequency,             *)
(* SPIsendCommand, SPIreadRegisterBurst) is not among the sources; it is   *)
(* modelled by its effect on the chip (mode, RX FIFO) and by the event it  *)
(* leaves in the trace of the running call.                                *)
(*                                                                         *)
(* The same file holds spiFrequencyToClockDiv (lines 124-189) and the      *)
(* EspHal built on the spi_master driver (lines 505-846); the driver's     *)
(* spi_bus_* and spi_device_* functions are modelled by their documented   *)
(* results.  Each part of the code has its own specification: Spec         *)
(* (readData), SpecScan (scanRSSI), SpecConv, SpecRssi, SpecLen, SpecPkt,  *)
(* SpecOok, SpecSync (scans and modulation changes), SpecClk, SpecHal      *)
(* (init, addSpiDevice, term), SpecTxn (transactions of open instances),   *)
(* SpecBus (every HAL call in any order) and SpecDelay (delayMicroseconds  *)
(* of the bit-level EspHal, lines 291-309, against the running clock; the  *)
(* only specification with fairness conditions).                           *)
(***************************************************************************)
EXTENDS Integers, Sequences, FiniteSets, TLC

VARIABLES
    variant,              \* 1 or 2: which E07400MM.cpp is built
    crcOn,                \* CC1101::crcOn, checksum enforcement
    mode,                 \* chip mode as last commanded: "IDLE" or "RX"
    fifo,                 \* chip RX FIFO, head first
    packetLength,         \* CC1101::packetLength (cache)
    packetLengthQueried,  \* CC1101::packetLengthQueried
    rawRSSI,              \* CC1101::rawRSSI
    rawLQI,               \* CC1101::rawLQI
    regs,                 \* chip configuration registers, by address
    lastLengthRead,       \* history: what the latest FIFO length read returned
    hal,                  \* the fields of each EspHal instance (spi_master variant)
    bus,                  \* the SPI host as the spi_master driver keeps it
    opened,               \* history: what spi_bus_initialize returned to each
                          \* instance's open that is not yet closed
    madeBy,               \* history: the instance that registered each device
    lease,                \* history: the device each instance acquired the bus
                          \* for and has not released it for (0: none)
    bracket,              \* each caller's position: "out" of a transaction, or
                          \* in one begun with a device ("held") or without
                          \* one ("empty")
    clock,                \* esp_timer_get_time(), microseconds since boot
    delay,                \* the delayMicroseconds call in progress (bit-level HAL)
    call                  \* the call that has just returned (op = "none": no call)

vars == <<variant, crcOn, mode, fifo, packetLength, packetLengthQueried,
          rawRSSI, rawLQI, regs, lastLengthRead, hal, bus, opened, madeBy, lease,
          bracket, clock, delay, call>>

\* the state of the HAL instances and of the SPI host
halVars == <<hal, bus, opened, madeBy, lease, bracket>>

-----------------------------------------------------------------------------
(* Bounds of the model *)

\* longest payload of a frame the air delivers
MaxLen == 3
\* capacity of the caller's receive buffer; readData's len is 0..BufSize
BufSize == 3
\* largest num_points passed to scanRSSI
MaxPoints == 5

-----------------------------------------------------------------------------
(* Values *)

\* RADIOLIB_CC1101_MAX_PACKET_LENGTH, compared with a uint8_t length byte
MAX_PACKET_LENGTH == 255

\* content of the caller's buffers before a call (0xEE); no FIFO byte and no
\* RSSI value equals it
Fill == 14 * 16 + 14
PayloadBytes == {17, 145}
RssiBytes == {48, 208}
StatusBytes == {42, 170}
\* what a read of an empty RX FIFO can return
GarbageBytes == {0, 255}

Min(a, b) == IF a < b THEN a ELSE b

\* (b & 0x80) != 0
Bit7(b) == (b \div 128) % 2 = 1
\* b & 0x7F
Low7(b) == b % 128

FreshBuf == [i \in 1..BufSize |-> Fill]

\* lastLengthRead before any FIFO length read
NoLength == 0 - 1

\* one step of a call as the chip and the caller's memory see it: op names it,
\* a and b are its integer arguments
Event(op, a, b) == [op |-> op, a |-> a, b |-> b]

Emit(s, e) == [s EXCEPT !.trace = Append(@, e)]

-----------------------------------------------------------------------------
(* The base driver, by its effect *)

\* CC1101::SPIsendCommand: a command strobe
SPIsendCommand(s, cmd) ==
    LET t == Emit(s, Event(cmd, 0, 0))
    IN  CASE cmd = "CMD_FLUSH_RX" -> [t EXCEPT !.fifo = <<>>]
          [] cmd = "CMD_RX"       -> [t EXCEPT !.mode = "RX"]
          [] OTHER                -> t

\* CC1101::startReceive: re-arms receive mode on an empty RX FIFO
startReceive(s) ==
    [Emit(s, Event("startReceive", 0, 0)) EXCEPT !.mode = "RX", !.fifo = <<>>]

\* CC1101::standby: low-power idle mode
standby(s) ==
    [Emit(s, Event("standby", 0, 0)) EXCEPT !.mode = "IDLE"]

\* Module::SPIreadRegisterBurst on the FIFO register: pops n bytes; a byte read
\* from an empty FIFO is indeterminate and comes from s.garbage
FifoReadBurst(s, reg, n) ==
    LET avail == Len(s.fifo)
        k     == Min(n, avail)
        byte(i) == IF i <= avail THEN s.fifo[i]
                   ELSE IF i - avail <= Len(s.garbage) THEN s.garbage[i - avail]
                   ELSE 0
        rest(q, from) == [j \in 1..(IF Len(q) >= from THEN Len(q) - from + 1 ELSE 0)
                             |-> q[from + j - 1]]
    IN  [s     |-> [Emit(s, Event("readBurst", reg, n))
                       EXCEPT !.fifo = rest(s.fifo, k + 1),
                              !.garbage = rest(s.garbage, n - k + 1)],
         bytes |-> [i \in 1..n |-> byte(i)]]

\* bit k of a byte
BitOf(b, k) == (b \div (2 ^ k)) % 2

\* CommandByte sending the register argument as the caller passed it
CommandByte_AsPassed(reg) == reg

\* CC1101::SPIreadRegisterBurst: the command/address byte that goes to the
\* chip for a register argument; the helper sets the burst bit (0x40) and the
\* read bit (0x80) whether or not the caller passed them
CommandByte(reg) ==
    reg + (IF BitOf(reg, 6) = 0 THEN 64 ELSE 0)
        + (IF BitOf(reg, 7) = 0 THEN 128 ELSE 0)

-----------------------------------------------------------------------------
(* E07_400MM::getPacketLength *)

\* the register argument of the FIFO reads: 0x3F | 0x40 in the first variant,
\* RADIOLIB_CC1101_REG_FIFO in the second
FifoRegV1 == 127
FifoRegV2 == 63

getPacketLengthV1(s, update) ==
    IF ~update /\ s.packetLengthQueried
    THEN [s |-> s, val |-> s.packetLength]
    ELSE LET r == FifoReadBurst(s, FifoRegV1, 1)
         IN  [s   |-> [r.s EXCEPT !.packetLength = r.bytes[1],
                                   !.packetLengthQueried = TRUE,
                                   !.lastLengthRead = r.bytes[1]],
              val |-> r.bytes[1]]

getPacketLengthV2(s, update) ==
    IF ~update /\ s.packetLengthQueried
    THEN [s |-> s, val |-> s.packetLength]
    ELSE LET r == FifoReadBurst(s, FifoRegV2, 1)
             packet_length == r.bytes[1]
         IN  IF packet_length = 0 \/ packet_length > MAX_PACKET_LENGTH
             THEN [s   |-> [startReceive(SPIsendCommand(r.s, "CMD_FLUSH_RX"))
                               EXCEPT !.lastLengthRead = 0],
                   val |-> 0]
             ELSE [s   |-> [r.s EXCEPT !.packetLength = packet_length,
                                       !.packetLengthQueried = TRUE,
                                       !.lastLengthRead = packet_length],
                   val |-> packet_length]

-----------------------------------------------------------------------------
(* E07_400MM::readData *)

\* the sanity-check branch of the first variant
readDataInvalidV1(s, buf) ==
    [ret   |-> "ERR_INVALID_PAYLOAD",
     s     |-> startReceive(SPIsendCommand(s, "CMD_FLUSH_RX")),
     data  |-> buf,
     nread |-> 0]

\* readLengthV1 without the clamp to the buffer size
readLengthV1_NoClamp(packet_length, len) ==
    packet_length

\* size_t read_length = (packet_length < len) ? packet_length : len;
readLengthV1(packet_length, len) ==
    IF packet_length < len THEN packet_length ELSE len

readLengthV2(packet_length, len) ==
    IF packet_length < len THEN packet_length ELSE len

\* the CRC check and the re-arm that end readData
checkCrcV1(s, lqi_crc) ==
    LET crc_ok == Bit7(lqi_crc)
    IN  IF ~crc_ok /\ crcOn
        THEN [ret |-> "ERR_CRC_MISMATCH", s |-> startReceive(s)]
        ELSE [ret |-> "ERR_NONE", s |-> startReceive(s)]

\* checkCrcV2 returning the checksum failure without restarting reception
checkCrcV2_NoRearm(s, lqi_crc) ==
    LET crc_ok == Bit7(lqi_crc)
    IN  IF ~crc_ok /\ crcOn
        THEN [ret |-> "ERR_CRC_MISMATCH", s |-> s]
        ELSE [ret |-> "ERR_NONE", s |-> startReceive(s)]

checkCrcV2(s, lqi_crc) ==
    LET crc_ok == Bit7(lqi_crc)
    IN  IF ~crc_ok /\ crcOn
        THEN [ret |-> "ERR_CRC_MISMATCH", s |-> startReceive(s)]
        ELSE [ret |-> "ERR_NONE", s |-> startReceive(s)]

\* storePayload keeping the payload in a scratch area until the CRC is checked
storePayload_Held(buf, bytes) ==
    buf

\* the burst read of the payload into the caller's buffer
storePayload(buf, bytes) ==
    [i \in 1..Len(buf) |-> IF i <= Len(bytes) THEN bytes[i] ELSE buf[i]]

readDataV1(s0, len, buf) ==
    LET s1 == [s0 EXCEPT !.packetLengthQueried = FALSE]
        r1 == getPacketLengthV1(s1, TRUE)
        packet_length == r1.val % 256
    IN  IF packet_length = 0 \/ packet_length > MAX_PACKET_LENGTH
        THEN readDataInvalidV1(r1.s, buf)
        ELSE LET read_length == readLengthV1(packet_length, len)
                 r2 == FifoReadBurst(r1.s, FifoRegV1, read_length)
                 r3 == FifoReadBurst(r2.s, FifoRegV1, 1)
                 r4 == FifoReadBurst(r3.s, FifoRegV1, 1)
                 rssi_raw == r3.bytes[1]
                 lqi_crc  == r4.bytes[1]
                 s5 == [r4.s EXCEPT !.rawRSSI = rssi_raw, !.rawLQI = Low7(lqi_crc)]
                 c  == checkCrcV1(s5, lqi_crc)
             IN  [ret   |-> c.ret,
                  s     |-> c.s,
                  data  |-> storePayload(buf, r2.bytes),
                  nread |-> read_length]

readDataV2(s0, len, buf) ==
    LET s1 == [s0 EXCEPT !.packetLengthQueried = FALSE]
        r1 == getPacketLengthV2(s1, TRUE)
        packet_length == r1.val % 256
        read_length == readLengthV2(packet_length, len)
        r2 == FifoReadBurst(r1.s, FifoRegV2, read_length)
        r3 == FifoReadBurst(r2.s, FifoRegV2, 1)
        r4 == FifoReadBurst(r3.s, FifoRegV2, 1)
        rssi_raw == r3.bytes[1]
        lqi_crc  == r4.bytes[1]
        s5 == [r4.s EXCEPT !.rawRSSI = rssi_raw, !.rawLQI = Low7(lqi_crc)]
        c  == checkCrcV2(s5, lqi_crc)
    IN  [ret   |-> c.ret,
         s     |-> c.s,
         data  |-> storePayload(buf, r2.bytes),
         nread |-> read_length]

readData(s, len, buf) ==
    IF variant = 1 THEN readDataV1(s, len, buf) ELSE readDataV2(s, len, buf)

-----------------------------------------------------------------------------
(* E07_400MM::convertRSSI, getRSSI *)

\* convertRSSI taking 128 for a positive reading
convertRSSI_SeamOff(rssi_raw) ==
    IF rssi_raw > 128 THEN (rssi_raw - 256) - 148 ELSE rssi_raw - 148

\* ((rssi_raw - 256) / 2.0f) - 74.0f, resp. (rssi_raw / 2.0f) - 74.0f, in half dB
convertRSSI(rssi_raw) ==
    IF rssi_raw >= 128 THEN (rssi_raw - 256) - 148 ELSE rssi_raw - 148

\* the register argument of the RSSI read: 0x34 | 0xC0 in the first variant,
\* RADIOLIB_CC1101_REG_RSSI | RADIOLIB_CC1101_CMD_ACCESS_STATUS_REG in the second
RssiRegV1 == 244
RssiRegV2 == 116

\* raw is what the RSSI status register holds when it is read
getRSSIV1(s, raw) ==
    [s |-> Emit(s, Event("readBurst", RssiRegV1, 1)), val |-> convertRSSI(raw)]

\* getRSSIV2 returning the RSSI byte readData stored
getRSSIV2_Cached(s, raw) ==
    [s |-> Emit(s, Event("readBurst", RssiRegV2, 1)), val |-> convertRSSI(s.rawRSSI)]

getRSSIV2(s, raw) ==
    [s |-> Emit(s, Event("readBurst", RssiRegV2, 1)), val |-> convertRSSI(raw)]

-----------------------------------------------------------------------------
(* E07_400MM::scanRSSI *)

\* -999.0f in half dB
Sentinel == -1998

\* CC1101::setFrequency: programs the frequency from idle mode; ok says whether
\* the base driver accepts the frequency
setFrequency(s, freq, ok) ==
    IF ok
    THEN [Emit(s, Event("setFrequency", freq, 0)) EXCEPT !.mode = "IDLE"]
    ELSE Emit(s, Event("setFrequencyFailed", freq, 0))

\* esp_rom_delay_us / delayMicroseconds
delayUs(s, us) == Emit(s, Event("delay", us, 0))

\* rssi_values[i] = v
store(st, i, v) ==
    [st EXCEPT !.s = Emit(@, Event("store", i, v)),
               !.out = [@ EXCEPT ![i + 1] = v]]

\* scanInvalid accepting a scan of zero points
scanInvalid_NullOnly(bufNull, num_points) ==
    bufNull

\* rssi_values == nullptr || num_points == 0
scanInvalid(bufNull, num_points) ==
    bufNull \/ num_points = 0

\* clampDwell without the upper limit
clampDwell_NoUpper(dwell_time_us) ==
    IF dwell_time_us < 500 THEN 500 ELSE dwell_time_us

\* dwell_time_us < 500 becomes 500, dwell_time_us > 50000 becomes 50000
clampDwell(dwell_time_us) ==
    IF dwell_time_us < 500 THEN 500
    ELSE IF dwell_time_us > 50000 THEN 50000
    ELSE dwell_time_us

\* center_freq - ((num_points / 2.0f) * (step_khz / 1000.0f)), in Hz
startFreq(center_freq, num_points, step_khz) ==
    center_freq - num_points * step_khz * 500

\* step_khz / 1000.0f, in Hz
stepMhz(step_khz) == step_khz * 1000

\* scanFailV2 leaving current_freq as it is
scanFailV2_NoStep(st, i, step_mhz) ==
    store(st, i, Sentinel)

\* the branch of the loop taken when setFrequency fails
scanFailV1(st, i, step_mhz) ==
    [store(st, i, Sentinel) EXCEPT !.current_freq = @ + step_mhz]

scanFailV2(st, i, step_mhz) ==
    [store(st, i, Sentinel) EXCEPT !.current_freq = @ + step_mhz]

\* one iteration of the loop, i from 0
scanPointV1(st, i, ok, raw, dwell, step_mhz) ==
    LET s1 == setFrequency(st.s, st.current_freq, ok)
    IN  IF ~ok
        THEN scanFailV1([st EXCEPT !.s = s1], i, step_mhz)
        ELSE LET s2 == delayUs(s1, dwell)
                 r  == getRSSIV1(s2, raw)
             IN  [store([st EXCEPT !.s = r.s], i, r.val)
                     EXCEPT !.current_freq = @ + step_mhz]

scanPointV2(st, i, ok, raw, dwell, step_mhz) ==
    LET s1 == setFrequency(st.s, st.current_freq, ok)
    IN  IF ~ok
        THEN scanFailV2([st EXCEPT !.s = s1], i, step_mhz)
        ELSE LET s2 == SPIsendCommand(s1, "CMD_RX")
                 s3 == delayUs(s2, dwell)
                 r  == getRSSIV2(s3, raw)
             IN  [store([st EXCEPT !.s = r.s], i, r.val)
                     EXCEPT !.current_freq = @ + step_mhz]

RECURSIVE scanLoopV1(_, _, _, _, _, _, _)
scanLoopV1(st, i, num_points, oks, raws, dwell, step_mhz) ==
    IF i >= num_points THEN st
    ELSE scanLoopV1(scanPointV1(st, i, oks[i + 1], raws[i + 1], dwell, step_mhz),
                    i + 1, num_points, oks, raws, dwell, step_mhz)

RECURSIVE scanLoopV2(_, _, _, _, _, _, _)
scanLoopV2(st, i, num_points, oks, raws, dwell, step_mhz) ==
    IF i >= num_points THEN st
    ELSE scanLoopV2(scanPointV2(st, i, oks[i + 1], raws[i + 1], dwell, step_mhz),
                    i + 1, num_points, oks, raws, dwell, step_mhz)

\* scanFinishV2 returning without the standby
scanFinishV2_NoStandby(st) ==
    [ret |-> "ERR_NONE", s |-> st.s, out |-> st.out]

\* the end of the scan: standby() and return
scanFinishV1(st) ==
    [ret |-> "ERR_NONE", s |-> standby(st.s), out |-> st.out]

scanFinishV2(st) ==
    [ret |-> "ERR_NONE", s |-> standby(st.s), out |-> st.out]

\* oks[i], raws[i]: whether setFrequency succeeds at point i and what the RSSI
\* register holds when point i reads it
scanRSSIV1(s, out, bufNull, num_points, center_freq, step_khz, dwell_time_us, oks, raws) ==
    IF scanInvalid(bufNull, num_points)
    THEN [ret |-> "ERR_INVALID_RSSI_OFFSET", s |-> s, out |-> out]
    ELSE LET dwell == clampDwell(dwell_time_us)
             s1 == SPIsendCommand(s, "CMD_RX")
             st == [s |-> s1, out |-> out,
                    current_freq |-> startFreq(center_freq, num_points, step_khz)]
         IN  scanFinishV1(scanLoopV1(st, 0, num_points, oks, raws, dwell,
                                     stepMhz(step_khz)))

scanRSSIV2(s, out, bufNull, num_points, center_freq, step_khz, dwell_time_us, oks, raws) ==
    IF scanInvalid(bufNull, num_points)
    THEN [ret |-> "ERR_INVALID_RSSI_OFFSET", s |-> s, out |-> out]
    ELSE LET dwell == clampDwell(dwell_time_us)
             st == [s |-> s, out |-> out,
                    current_freq |-> startFreq(center_freq, num_points, step_khz)]
         IN  scanFinishV2(scanLoopV2(st, 0, num_points, oks, raws, dwell,
                                     stepMhz(step_khz)))

scanRSSI(s, out, bufNull, num_points, center_freq, step_khz, dwell_time_us, oks, raws) ==
    IF variant = 1
    THEN scanRSSIV1(s, out, bufNull, num_points, center_freq, step_khz, dwell_time_us, oks, raws)
    ELSE scanRSSIV2(s, out, bufNull, num_points, center_freq, step_khz, dwell_time_us, oks, raws)

-----------------------------------------------------------------------------
(* Configuration registers: E07_400MM::packetMode, restoreSyncMode, setOOK *)

\* RADIOLIB_CC1101_REG_PKTCTRL1, _PKTCTRL0 and _MDMCFG2
REG_PKTCTRL1 == 7
REG_PKTCTRL0 == 8
REG_MDMCFG2 == 18

Bytes == 0..255

\* the three registers after a chip reset (0x04, 0x45, 0x02)
ResetRegs == (REG_PKTCTRL1 :> 4) @@ (REG_PKTCTRL0 :> 4 * 16 + 5) @@ (REG_MDMCFG2 :> 2)

\* bits hi..lo of byte b
Bits(b, hi, lo) == (b \div (2 ^ lo)) % (2 ^ (hi - lo + 1))

\* Module::SPIgetRegValue with the default msb = 7, lsb = 0: the whole register
SPIgetRegValue(s, reg) ==
    [s   |-> Emit(s, Event("SPIgetRegValue", reg, s.regs[reg])),
     val |-> s.regs[reg]]

\* Module::SPIsetRegValue with the default msb = 7, lsb = 0: one write of the
\* whole register, then a read back; ok says whether the register took the value
SPIsetRegValue(s, reg, value, ok) ==
    LET t == Emit(s, Event("SPIsetRegValue", reg, value))
    IN  IF ok
        THEN [ret |-> "ERR_NONE", s |-> [t EXCEPT !.regs[reg] = value]]
        ELSE [ret |-> "ERR_SPI_WRITE_FAILED", s |-> t]

\* uint8_t pktctrl1 = 0x0C
PktCtrl1Value == 12

\* setLengthMode writing the length mode alone
setLengthMode_Alone(pktctrl0) == 1

\* (pktctrl0 & 0xFC) | 0x01
setLengthMode(pktctrl0) == (pktctrl0 \div 4) * 4 + 1

\* esp_rom_delay_us(5000)
SettleUs == 5000

\* oks[1], oks[2]: whether the write of PKTCTRL1, of PKTCTRL0 is taken
packetMode(s, oks) ==
    LET w1 == SPIsetRegValue(s, REG_PKTCTRL1, PktCtrl1Value, oks[1])
    IN  IF w1.ret # "ERR_NONE"
        THEN [ret |-> w1.ret, s |-> w1.s]
        ELSE LET g  == SPIgetRegValue(w1.s, REG_PKTCTRL0)
                 w2 == SPIsetRegValue(g.s, REG_PKTCTRL0, setLengthMode(g.val), oks[2])
             IN  IF w2.ret # "ERR_NONE"
                 THEN [ret |-> w2.ret, s |-> w2.s]
                 ELSE [ret |-> w2.ret, s |-> Emit(w2.s, Event("delay", SettleUs, 0))]

\* syncMode leaving the sync bits as they are
syncMode_Keep(mdmcfg2) == mdmcfg2

\* (mdmcfg2 & 0xF8) | 0x02
syncMode(mdmcfg2) == (mdmcfg2 \div 8) * 8 + 2

\* restoreSyncMode reading MDMCFG2 and writing nothing
restoreSyncMode_Skip(s, ok) ==
    [ret |-> "ERR_NONE", s |-> SPIgetRegValue(s, REG_MDMCFG2).s]

restoreSyncMode(s, ok) ==
    LET g == SPIgetRegValue(s, REG_MDMCFG2)
    IN  SPIsetRegValue(g.s, REG_MDMCFG2, syncMode(g.val), ok)

\* how the generic modulation setup can end: done, failed before MDMCFG2 took
\* the modulation format, or failed in a later step (FREND0, PA table)
BaseOutcomes == {"ok", "failFormat", "failLater"}

\* MDMCFG2 with bits 6-4 set to the modulation format: ASK/OOK (011) or 2-FSK (000)
withModFormat(mdmcfg2, enableOOK) ==
    mdmcfg2 - Bits(mdmcfg2, 6, 4) * 16 + (IF enableOOK THEN 3 ELSE 0) * 16

\* CC1101::setOOK: writes the modulation format in MDMCFG2 bits 6-4 and leaves
\* the other bits of MDMCFG2; the event carries MDMCFG2 as it leaves it
baseSetOOK(s, enableOOK, outcome) ==
    LET m  == IF outcome = "failFormat" THEN s.regs[REG_MDMCFG2]
              ELSE withModFormat(s.regs[REG_MDMCFG2], enableOOK)
        s1 == [s EXCEPT !.regs[REG_MDMCFG2] = m]
    IN  [ret |-> IF outcome = "ok" THEN "ERR_NONE" ELSE "ERR_SPI_WRITE_FAILED",
         s   |-> Emit(s1, Event("CC1101_setOOK", IF enableOOK THEN 1 ELSE 0, m))]

setOOK(s, enableOOK, outcome, ok) ==
    LET b == baseSetOOK(s, enableOOK, outcome)
    IN  IF b.ret # "ERR_NONE"
        THEN b
        ELSE restoreSyncMode(b.s, ok)

-----------------------------------------------------------------------------
(* spiFrequencyToClockDiv *)

\* the fields of spiClk_t
ClkReg(l, n, pre, equ) ==
    [clkcnt_l |-> l, clkcnt_h |-> 0, clkcnt_n |-> n, clkdiv_pre |-> pre,
     clk_equ_sysclk |-> equ]

\* apb_freq / ((reg->clkdiv_pre + 1) * (reg->clkcnt_n + 1))
ClkRegToFreq(apb_freq, reg) ==
    apb_freq \div ((reg.clkdiv_pre + 1) * (reg.clkcnt_n + 1))

\* SPI_CLK_EQU_SYSCLK: bit 31 alone
EquSysclkReg == ClkReg(0, 0, 0, 1)

\* {0x7FFFF000}: clkcnt_n = 0x3F, clkdiv_pre = 0x1FFF
minFreqReg == ClkReg(0, 63, 8191, 0)

Abs(x) == IF x > 0 THEN x ELSE -x

\* candidateReg leaving a calPre above 0x1FFF as it is
candidateReg_NoUpperClamp(apb_freq, freq, n, calPreVari) ==
    LET calPre == (((apb_freq \div (n + 1)) \div freq) - 1) + calPreVari
        pre    == IF calPre <= 0 THEN 0 ELSE calPre
    IN  ClkReg((n + 1) \div 2, n, pre, 0)

\* the register tried for counter n and variation calPreVari: calPre clamped
\* into 0..0x1FFF, clkcnt_l = (n + 1) / 2.  The uint32_t arithmetic of calPre
\* wraps around to the value the signed arithmetic gives.
candidateReg(apb_freq, freq, n, calPreVari) ==
    LET calPre == (((apb_freq \div (n + 1)) \div freq) - 1) + calPreVari
        pre    == IF calPre > 8191 THEN 8191
                  ELSE IF calPre <= 0 THEN 0
                  ELSE calPre
    IN  ClkReg((n + 1) \div 2, n, pre, 0)

\* closer accepting a candidate on either side of freq
closer_EitherSide(freq, calFreq, bestFreq) ==
    Abs(freq - calFreq) < Abs(freq - bestFreq)

\* calFreq < freq and RADIOLIB_ABS(freq - calFreq) < RADIOLIB_ABS(freq - bestFreq)
closer(freq, calFreq, bestFreq) ==
    calFreq < freq /\ Abs(freq - calFreq) < Abs(freq - bestFreq)

\* while (calPreVari++ <= 1): the body runs with calPreVari + 1
RECURSIVE preLoop(_, _, _, _, _)
preLoop(st, apb_freq, freq, n, calPreVari) ==
    IF calPreVari > 1 THEN st
    ELSE LET reg     == candidateReg(apb_freq, freq, n, calPreVari + 1)
             calFreq == ClkRegToFreq(apb_freq, reg)
             tried   == Append(st.tried, reg)
         IN  IF calFreq = freq
             THEN [st EXCEPT !.bestReg = reg, !.calFreq = calFreq, !.tried = tried]
             ELSE IF closer(freq, calFreq, st.bestFreq)
             THEN preLoop([bestReg |-> reg, bestFreq |-> calFreq,
                           calFreq |-> calFreq, tried |-> tried],
                          apb_freq, freq, n, calPreVari + 1)
             ELSE preLoop([st EXCEPT !.calFreq = calFreq, !.tried = tried],
                          apb_freq, freq, n, calPreVari + 1)

\* counterLoop going on to the next counter value after an exact match
RECURSIVE counterLoop_NoStop(_, _, _, _)
counterLoop_NoStop(st, apb_freq, freq, calN) ==
    IF calN > 63 THEN st
    ELSE LET s1 == preLoop(st, apb_freq, freq, calN, -2)
         IN  IF s1.calFreq = freq /\ calN = 63 THEN s1
             ELSE counterLoop_NoStop(s1, apb_freq, freq, calN + 1)

\* while (calN <= 0x3F)
RECURSIVE counterLoop(_, _, _, _)
counterLoop(st, apb_freq, freq, calN) ==
    IF calN > 63 THEN st
    ELSE LET s1 == preLoop(st, apb_freq, freq, calN, -2)
         IN  IF s1.calFreq = freq THEN s1
             ELSE counterLoop(s1, apb_freq, freq, calN + 1)

\* returns the register and, as history, the registers tried in order
spiFrequencyToClockDiv(apb_freq, freq) ==
    IF freq >= apb_freq
    THEN [reg |-> EquSysclkReg, tried |-> <<>>]
    ELSE IF freq < ClkRegToFreq(apb_freq, minFreqReg)
    THEN [reg |-> minFreqReg, tried |-> <<>>]
    ELSE LET st == counterLoop([bestReg |-> ClkReg(0, 0, 0, 0), bestFreq |-> 0,
                                calFreq |-> 0, tried |-> <<>>],
                               apb_freq, freq, 1)
         IN  [reg |-> st.bestReg, tried |-> st.tried]

-----------------------------------------------------------------------------
(* EspHal (bit-level variant): delayMicroseconds *)

\* bits of the microsecond clock (uint64_t in the source)
ClockBits == 3

\* the clock counts modulo 2 ^ ClockBits
Period == 2 ^ ClockBits

\* no delayMicroseconds call in progress
NoDelay == [pc |-> "idle", us |-> 0, m |-> 0, e |-> 0, now |-> 0, waited |-> 0]

\* uint64_t e = (m + us)
Deadline(m, us) == (m + us) % Period

\* a delay that never takes the deadline for wrapped
Overflowed_Never(m, e) == FALSE

\* if (m > e): the deadline wrapped past the clock's maximum
Overflowed(m, e) == m > e

\* while ((uint64_t)esp_timer_get_time() > e): the clock has not wrapped yet
BeforeWrap(now, e) == now > e

\* while ((uint64_t)esp_timer_get_time() < e): the deadline is still ahead
BeforeDeadline(now, e) == now < e

\* delayMicroseconds up to its first loop: where the call stands after reading
\* the clock as m, "idle" when it returns at once
delayMicroseconds(m, us) ==
    IF us = 0
    THEN NoDelay
    ELSE LET e == Deadline(m, us)
         IN  [pc     |-> IF Overflowed(m, e) THEN "overflow" ELSE "deadline",
              us     |-> us,
              m      |-> m,
              e      |-> e,
              now    |-> m,
              waited |-> 0]

-----------------------------------------------------------------------------
(* EspHal on the spi_master driver: init, term, spiBegin, spiEnd, addSpiDevice *)

\* number of EspHal instances on the one SPI host
NumHals == 2
\* devices the SPI host can hold
MaxDevices == 3

Instances == 1..NumHals

\* the constructor; spiDevice = 0 is nullptr
NewHal ==
    [spiDevice |-> 0, busInitialized |-> FALSE, deviceAdded |-> FALSE,
     halInitialized |-> FALSE]

\* the SPI host before any spi_bus_initialize
NoBus == [initialized |-> FALSE, devices |-> {}, holder |-> 0]

\* bus.holder when the device that acquired the bus was removed while holding it
Stale == 0 - 1

\* the int8_t pin that compares equal to RADIOLIB_NC
RADIOLIB_NC == -1

\* spi_bus_initialize: refuses an initialized host; fail stands for any other
\* failure (no memory, bad pins)
spi_bus_initialize(b, fail) ==
    IF b.initialized THEN [ret |-> "ESP_ERR_INVALID_STATE", bus |-> b]
    ELSE IF fail THEN [ret |-> "ESP_ERR_NO_MEM", bus |-> b]
    ELSE [ret |-> "ESP_OK", bus |-> [b EXCEPT !.initialized = TRUE]]

\* spi_bus_add_device: needs an initialized host with a free slot
spi_bus_add_device(b, fail) ==
    IF ~b.initialized THEN [ret |-> "ESP_ERR_INVALID_STATE", bus |-> b, handle |-> 0]
    ELSE IF Cardinality(b.devices) >= MaxDevices
    THEN [ret |-> "ESP_ERR_NOT_FOUND", bus |-> b, handle |-> 0]
    ELSE IF fail THEN [ret |-> "ESP_ERR_NO_MEM", bus |-> b, handle |-> 0]
    ELSE LET h == CHOOSE x \in 1..MaxDevices :
                      x \notin b.devices /\ \A y \in 1..(x - 1) : y \in b.devices
         IN  [ret |-> "ESP_OK", bus |-> [b EXCEPT !.devices = @ \cup {h}],
              handle |-> h]

\* spi_bus_remove_device: does not look at the bus lock; when the device holds
\* it, the lock is left to a device that no longer exists (keep) or is lost
spi_bus_remove_device(b, h, keep) ==
    [b EXCEPT !.devices = @ \ {h},
              !.holder = IF @ = h THEN (IF keep THEN Stale ELSE 0) ELSE @]

\* spi_device_acquire_bus(handle, portMAX_DELAY) returns once the bus is free
Acquirable(b) == b.holder = 0

spi_device_acquire_bus(b, h) == [b EXCEPT !.holder = h]

\* spi_device_release_bus: only the device that acquired the bus releases it
spi_device_release_bus(b, h) ==
    IF b.holder = h
    THEN [ret |-> "ESP_OK", bus |-> [b EXCEPT !.holder = 0]]
    ELSE [ret |-> "ESP_ERR_INVALID_STATE", bus |-> b]

\* spi_device_polling_transmit waits while another device holds the bus
Transmittable(b, h) == b.holder \in {0, h}

spi_device_polling_transmit(fail) == IF fail THEN "ESP_ERR_TIMEOUT" ELSE "ESP_OK"

\* spi_bus_free: refuses a host that is not initialized or still holds a device
spi_bus_free(b) ==
    IF b.initialized /\ b.devices = {}
    THEN [ret |-> "ESP_OK", bus |-> NoBus]
    ELSE [ret |-> "ESP_ERR_INVALID_STATE", bus |-> b]

\* 1 for ESP_OK, 0 for a failure
Ok(ret) == IF ret = "ESP_OK" THEN 1 ELSE 0

\* spiBegin taking a host that is already initialized for its own
spiBegin_TakesOver(w, fail) ==
    LET r == spi_bus_initialize(w.bus, fail)
        t == Emit([w EXCEPT !.bus = r.bus, !.ret = r.ret],
                  Event("spi_bus_initialize", Ok(r.ret), 0))
    IN  IF r.ret \in {"ESP_OK", "ESP_ERR_INVALID_STATE"}
        THEN [t EXCEPT !.h.busInitialized = TRUE]
        ELSE t

\* w: the instance (h), the host (bus), the trace and the last esp_err_t (ret)
spiBegin(w, fail) ==
    LET r == spi_bus_initialize(w.bus, fail)
        t == Emit([w EXCEPT !.bus = r.bus, !.ret = r.ret],
                  Event("spi_bus_initialize", Ok(r.ret), 0))
    IN  IF r.ret = "ESP_OK" THEN [t EXCEPT !.h.busInitialized = TRUE]
        ELSE IF r.ret = "ESP_ERR_INVALID_STATE" THEN [t EXCEPT !.h.busInitialized = FALSE]
        ELSE t

init(w, fail) ==
    IF ~w.h.halInitialized
    THEN [spiBegin(w, fail) EXCEPT !.h.halInitialized = TRUE]
    ELSE w

spiEnd(w) ==
    LET w1 == IF w.h.deviceAdded /\ w.h.spiDevice # 0
              THEN [Emit(w, Event("spi_bus_remove_device", w.h.spiDevice, 0))
                       EXCEPT !.bus = spi_bus_remove_device(w.bus, w.h.spiDevice, w.keep),
                              !.h.spiDevice = 0,
                              !.h.deviceAdded = FALSE]
              ELSE w
    IN  IF w1.h.busInitialized
        THEN LET r == spi_bus_free(w1.bus)
             IN  [Emit(w1, Event("spi_bus_free", Ok(r.ret), 0))
                     EXCEPT !.bus = r.bus, !.ret = r.ret,
                            !.h.busInitialized = FALSE]
        ELSE w1

term(w) ==
    IF w.h.halInitialized
    THEN [spiEnd(w) EXCEPT !.h.halInitialized = FALSE]
    ELSE w

\* returns the bool in w.ok
addSpiDevice(w, csPin, fail) ==
    IF csPin = RADIOLIB_NC
    THEN [w EXCEPT !.ok = FALSE]
    ELSE LET r == spi_bus_add_device(w.bus, fail)
             t == Emit([w EXCEPT !.bus = r.bus, !.ret = r.ret],
                       Event("spi_bus_add_device", Ok(r.ret), r.handle))
         IN  IF r.ret # "ESP_OK"
             THEN [t EXCEPT !.ok = FALSE]
             ELSE [t EXCEPT !.h.spiDevice = r.handle, !.h.deviceAdded = TRUE,
                            !.ok = TRUE]

\* spiBeginTransaction entering the transaction without acquiring the bus
spiBeginTransaction_NoAcquire(w) == w

spiBeginTransaction(w) ==
    IF w.h.spiDevice # 0
    THEN [Emit(w, Event("spi_device_acquire_bus", w.h.spiDevice, 0))
             EXCEPT !.bus = spi_device_acquire_bus(w.bus, w.h.spiDevice)]
    ELSE w

\* the value of every byte of a failure sentinel
Sentinel0xFF == 15 * 16 + 15

\* spiTransferByte returning trans.rx_data[0] without looking at the result
spiTransferByte_NoCheck(w, b, fail, rx) ==
    IF w.h.spiDevice = 0
    THEN [Emit(w, Event("ESP_LOGE", 0, 0)) EXCEPT !.val = Sentinel0xFF]
    ELSE LET ret == spi_device_polling_transmit(fail)
             t   == Emit([w EXCEPT !.ret = ret],
                         Event("spi_device_polling_transmit", w.h.spiDevice, b))
         IN  [t EXCEPT !.val = IF ret = "ESP_OK" THEN rx ELSE 0]

\* b is sent, rx is what the device answers when the transmission is done;
\* the returned byte is left in w.val
spiTransferByte(w, b, fail, rx) ==
    IF w.h.spiDevice = 0
    THEN [Emit(w, Event("ESP_LOGE", 0, 0)) EXCEPT !.val = Sentinel0xFF]
    ELSE LET ret == spi_device_polling_transmit(fail)
             t   == Emit([w EXCEPT !.ret = ret],
                         Event("spi_device_polling_transmit", w.h.spiDevice, b))
         IN  IF ret # "ESP_OK"
             THEN [Emit(t, Event("ESP_LOGE", 0, 0)) EXCEPT !.val = Sentinel0xFF]
             ELSE [t EXCEPT !.val = rx]

\* out, len: what is sent; w.buf: the caller's in buffer; rx: what the device
\* answers when the transmission is done; the function returns nothing
spiTransfer(w, out, len, fail, rx) ==
    IF w.h.spiDevice = 0
    THEN Emit(w, Event("ESP_LOGE", 0, 0))
    ELSE IF len = 0
    THEN w
    ELSE LET ret == spi_device_polling_transmit(fail)
             t   == Emit([w EXCEPT !.ret = ret],
                         Event("spi_device_polling_transmit", w.h.spiDevice, len))
         IN  IF ret # "ESP_OK"
             THEN Emit(t, Event("ESP_LOGE", 0, 0))
             ELSE [t EXCEPT !.buf = rx]

spiEndTransaction(w) ==
    IF w.h.spiDevice # 0
    THEN LET r == spi_device_release_bus(w.bus, w.h.spiDevice)
         IN  [Emit(w, Event("spi_device_release_bus", w.h.spiDevice, Ok(r.ret)))
                 EXCEPT !.bus = r.bus]
    ELSE w

-----------------------------------------------------------------------------
(* The receive path as a state machine *)

NoCall == [op |-> "none", ret |-> "", trace |-> <<>>, in |-> <<>>, out |-> <<>>]

\* the driver and the chip at the start of a call; g is what reads of an empty
\* FIFO will return during the call
Entry(g) ==
    [mode |-> mode, fifo |-> fifo, packetLength |-> packetLength,
     packetLengthQueried |-> packetLengthQueried, rawRSSI |-> rawRSSI,
     rawLQI |-> rawLQI, regs |-> regs, lastLengthRead |-> lastLengthRead,
     trace |-> <<>>, garbage |-> g]

\* a frame as the chip queues it in variable-length mode with append-status on:
\* length byte, payload, RSSI byte, LQI/CRC byte
Frame(L, payload, rssi, status) == <<L>> \o payload \o <<rssi, status>>

Payloads == UNION { [1..n -> PayloadBytes] : n \in 0..MaxLen }

Frames ==
    { Frame(Len(p), p, r, st) : p \in Payloads, r \in RssiBytes, st \in StatusBytes }

\* the HAL instances after construction, the SPI host untouched
InitHal ==
    /\ hal = [i \in Instances |-> NewHal]
    /\ bus = NoBus
    /\ opened = [i \in Instances |-> "closed"]
    /\ madeBy = [h \in 1..MaxDevices |-> 0]
    /\ lease = [i \in Instances |-> 0]
    /\ bracket = [i \in Instances |-> "out"]

\* the clock at boot, no delay in progress
InitTimer ==
    /\ clock = 0
    /\ delay = NoDelay

\* the driver and the HAL instances after construction, the chip idle
InitDriver ==
    /\ variant \in {1, 2}
    /\ crcOn \in BOOLEAN
    /\ mode = "IDLE"
    /\ fifo = <<>>
    /\ packetLength = 0
    /\ packetLengthQueried = FALSE
    /\ rawRSSI = 0
    /\ rawLQI = 0
    /\ lastLengthRead = NoLength
    /\ InitHal
    /\ InitTimer
    /\ call = NoCall

Init ==
    /\ InitDriver
    /\ regs = ResetRegs

\* the caller arms the receiver
StartReceive ==
    /\ call.op = "none"
    /\ mode # "RX"
    /\ LET s == startReceive(Entry(<<>>))
       IN  /\ mode' = s.mode
           /\ fifo' = s.fifo
    /\ UNCHANGED <<clock, delay, variant, crcOn, packetLength, packetLengthQueried, rawRSSI, rawLQI,
                   regs, lastLengthRead, halVars, call>>

\* the chip receives a frame: it is queued in the RX FIFO and the chip leaves RX
PacketArrives ==
    /\ call.op = "none"
    /\ mode = "RX"
    /\ fifo = <<>>
    /\ \E f \in Frames : fifo' = f
    /\ mode' = "IDLE"
    /\ UNCHANGED <<clock, delay, variant, crcOn, packetLength, packetLengthQueried, rawRSSI, rawLQI,
                   regs, lastLengthRead, halVars, call>>

\* the caller's readData(data, len) on a buffer of BufSize bytes
ReadData ==
    /\ call.op = "none"
    /\ \E len \in 0..BufSize :
       \E g \in [1..(IF fifo = <<>> THEN len + 3 ELSE 2) -> GarbageBytes] :
       \E r \in {readData(Entry(g), len, FreshBuf)} :
          LET used == Len(g) - Len(r.s.garbage)
          IN  /\ \A i \in 1..Len(r.s.garbage) : r.s.garbage[i] = 0
              /\ mode' = r.s.mode
              /\ fifo' = r.s.fifo
              /\ packetLength' = r.s.packetLength
              /\ packetLengthQueried' = r.s.packetLengthQueried
              /\ rawRSSI' = r.s.rawRSSI
              /\ rawLQI' = r.s.rawLQI
              /\ lastLengthRead' = r.s.lastLengthRead
              /\ call' = [op    |-> "readData",
                          ret   |-> r.ret,
                          trace |-> r.s.trace,
                          in    |-> [len |-> len, fifo |-> fifo,
                                     garbage |-> [i \in 1..used |-> g[i]]],
                          out   |-> [data |-> r.data, nread |-> r.nread]]
    /\ UNCHANGED <<clock, delay, variant, crcOn, regs, halVars>>

\* the caller has taken the result of the call
Return ==
    /\ call.op # "none"
    /\ call' = NoCall
    /\ UNCHANGED <<clock, delay, variant, crcOn, mode, fifo, packetLength, packetLengthQueried,
                   rawRSSI, rawLQI, regs, lastLengthRead, halVars>>

Next ==
    \/ StartReceive
    \/ PacketArrives
    \/ ReadData
    \/ Return

Spec == Init /\ [][Next]_vars

-----------------------------------------------------------------------------
(* The spectrum scan as a state machine *)

\* centre frequencies (Hz), steps (kHz) and dwell times (us) the caller passes
Centers == {433000000}
Steps == {125, 250}
Dwells == {499, 500, 3000, 50000, 50001}

\* the caller's output array before the call: MaxPoints floats, or none
FreshOut(bufNull) == IF bufNull THEN <<>> ELSE [i \in 1..MaxPoints |-> Fill]

LowRssi == CHOOSE r \in RssiBytes : \A q \in RssiBytes : r <= q

\* the caller's scanRSSI(rssi_values, num_points, center_freq, step_khz, dwell)
ScanRSSI ==
    /\ call.op = "none"
    /\ \E bufNull \in BOOLEAN, n \in 0..MaxPoints, c \in Centers, k \in Steps, d \in Dwells :
       \E oks \in [1..n -> BOOLEAN], raws \in [1..n -> RssiBytes] :
          \* the register is read only at the points that were programmed
          /\ \A i \in 1..n : (~oks[i] \/ scanInvalid(bufNull, n)) => raws[i] = LowRssi
          /\ scanInvalid(bufNull, n) => \A i \in 1..n : oks[i]
          /\ \E r \in {scanRSSI(Entry(<<>>), FreshOut(bufNull), bufNull, n, c, k, d, oks, raws)} :
                /\ mode' = r.s.mode
                /\ fifo' = r.s.fifo
                /\ call' = [op    |-> "scanRSSI",
                            ret   |-> r.ret,
                            trace |-> r.s.trace,
                            in    |-> [bufNull |-> bufNull, n |-> n, center |-> c,
                                       step |-> k, dwell |-> d, oks |-> oks,
                                       raws |-> raws, mode |-> mode,
                                       regs |-> regs],
                            out   |-> [values |-> r.out]]
    /\ UNCHANGED <<clock, delay, variant, crcOn, packetLength, packetLengthQueried, rawRSSI, rawLQI,
                   regs, lastLengthRead, halVars>>

NextScan ==
    \/ StartReceive
    \/ ScanRSSI
    \/ Return

SpecScan == Init /\ [][NextScan]_vars

-----------------------------------------------------------------------------
(* convertRSSI, getRSSI and getPacketLength as state machines *)

\* convertRSSI applied to every byte
ConvertRSSI ==
    /\ call.op = "none"
    /\ \E rssi_raw \in Bytes :
          call' = [op    |-> "convertRSSI",
                   ret   |-> "",
                   trace |-> <<>>,
                   in    |-> [rssi_raw |-> rssi_raw],
                   out   |-> [val |-> convertRSSI(rssi_raw)]]
    /\ UNCHANGED <<clock, delay, variant, crcOn, mode, fifo, packetLength, packetLengthQueried,
                   rawRSSI, rawLQI, regs, lastLengthRead, halVars>>

NextConv ==
    \/ ConvertRSSI
    \/ Return

SpecConv == Init /\ [][NextConv]_vars

\* what the RSSI status register holds when getRSSI reads it: the bytes frames
\* carry, the ends of the range and both sides of the sign change
RssiRegBytes == RssiBytes \cup {0, 127, 128, 255}

\* the caller's getRSSI(); raw is what the RSSI status register holds
GetRSSI ==
    /\ call.op = "none"
    /\ \E raw \in RssiRegBytes :
       \E r \in {IF variant = 1 THEN getRSSIV1(Entry(<<>>), raw)
                 ELSE getRSSIV2(Entry(<<>>), raw)} :
          call' = [op    |-> "getRSSI",
                   ret   |-> "",
                   trace |-> r.s.trace,
                   in    |-> [raw |-> raw],
                   out   |-> [val |-> r.val]]
    /\ UNCHANGED <<clock, delay, variant, crcOn, mode, fifo, packetLength, packetLengthQueried,
                   rawRSSI, rawLQI, regs, lastLengthRead, halVars>>

NextRssi ==
    \/ StartReceive
    \/ PacketArrives
    \/ ReadData
    \/ GetRSSI
    \/ Return

SpecRssi == Init /\ [][NextRssi]_vars

\* the caller's getPacketLength(update)
GetPacketLength ==
    /\ call.op = "none"
    /\ \E update \in BOOLEAN :
       \E g \in [1..(IF fifo = <<>> THEN 1 ELSE 0) -> GarbageBytes] :
       \E r \in {IF variant = 1 THEN getPacketLengthV1(Entry(g), update)
                 ELSE getPacketLengthV2(Entry(g), update)} :
          /\ r.s.garbage = <<>>
          /\ mode' = r.s.mode
          /\ fifo' = r.s.fifo
          /\ packetLength' = r.s.packetLength
          /\ packetLengthQueried' = r.s.packetLengthQueried
          /\ lastLengthRead' = r.s.lastLengthRead
          /\ call' = [op    |-> "getPacketLength",
                      ret   |-> "",
                      trace |-> r.s.trace,
                      in    |-> [update |-> update,
                                 packetLength |-> packetLength,
                                 packetLengthQueried |-> packetLengthQueried,
                                 lastLengthRead |-> lastLengthRead],
                      out   |-> [val |-> r.val]]
    /\ UNCHANGED <<clock, delay, variant, crcOn, rawRSSI, rawLQI, regs, halVars>>

NextLen ==
    \/ StartReceive
    \/ PacketArrives
    \/ GetPacketLength
    \/ Return

SpecLen == Init /\ [][NextLen]_vars

-----------------------------------------------------------------------------
(* The configuration of the chip as a state machine *)

\* what the generic driver can have left in the registers: each register in
\* turn holds any byte, the others their reset value
Configs == { [ResetRegs EXCEPT ![r] = b] : r \in DOMAIN ResetRegs, b \in Bytes }

\* the second variant is the one that has packetMode and setOOK
InitCfg ==
    /\ InitDriver
    /\ variant = 2
    /\ regs \in Configs

\* the caller's packetMode()
PacketMode ==
    /\ call.op = "none"
    /\ variant = 2
    /\ \E oks \in [1..2 -> BOOLEAN] :
          \* the second write only happens after the first was taken
          /\ ~oks[1] => oks[2]
          /\ \E r \in {packetMode(Entry(<<>>), oks)} :
                /\ regs' = r.s.regs
                /\ call' = [op    |-> "packetMode",
                            ret   |-> r.ret,
                            trace |-> r.s.trace,
                            in    |-> [regs |-> regs],
                            out   |-> <<>>]
    /\ UNCHANGED <<clock, delay, variant, crcOn, mode, fifo, packetLength, packetLengthQueried,
                   rawRSSI, rawLQI, lastLengthRead, halVars>>

NextPkt ==
    \/ PacketMode
    \/ Return

SpecPkt == InitCfg /\ [][NextPkt]_vars

\* the caller's setOOK(enableOOK)
SetOOK ==
    /\ call.op = "none"
    /\ variant = 2
    /\ \E enableOOK \in BOOLEAN, outcome \in BaseOutcomes, ok \in BOOLEAN :
          \* the restoring write only happens after the generic setup succeeded
          /\ outcome # "ok" => ok
          /\ \E r \in {setOOK(Entry(<<>>), enableOOK, outcome, ok)} :
                /\ regs' = r.s.regs
                /\ call' = [op    |-> "setOOK",
                            ret   |-> r.ret,
                            trace |-> r.s.trace,
                            in    |-> [regs |-> regs, enableOOK |-> enableOOK],
                            out   |-> <<>>]
    /\ UNCHANGED <<clock, delay, variant, crcOn, mode, fifo, packetLength, packetLengthQueried,
                   rawRSSI, rawLQI, lastLengthRead, halVars>>

NextOok ==
    \/ SetOOK
    \/ Return

SpecOok == InitCfg /\ [][NextOok]_vars

\* MDMCFG2 sync modes the generic driver can have left before the first call:
\* no sync word (000), 16/16 (010), 16/16 with carrier sense (110)
SyncModes == {0, 2, 6}

InitSync ==
    /\ InitDriver
    /\ variant = 2
    /\ \E m \in SyncModes :
          regs = [ResetRegs EXCEPT ![REG_MDMCFG2] = (@ \div 8) * 8 + m]

\* scans and modulation changes in any order
NextSync ==
    \/ ScanRSSI
    \/ SetOOK
    \/ Return

SpecSync == InitSync /\ [][NextSync]_vars

-----------------------------------------------------------------------------
(* The clock divider as a state machine *)

\* largest divisor of the bus clock the targets are taken around
MaxDiv == 24

\* getApbFrequency: 80 MHz, or the source clock divided down
ApbFreqs == {80000000, 40000000}

\* SPI clocks the HAL is asked for: exactly a fraction of the bus clock, one
\* below and one above it, frequencies under the lowest the divider reaches,
\* the ones just above it and ones that take a prescaler and a large counter
TargetFreqs(apb_freq) ==
    { apb_freq \div d + e : d \in 1..MaxDiv, e \in {0 - 1, 0, 1} }
        \cup { 1, 100, ClkRegToFreq(apb_freq, minFreqReg) }
        \cup { ClkRegToFreq(apb_freq, minFreqReg) + d : d \in 1..MaxDiv }
        \cup { apb_freq \div (64 * 64 * d) : d \in 1..MaxDiv }

SpiFrequencyToClockDiv ==
    /\ call.op = "none"
    /\ \E apb_freq \in ApbFreqs :
       \E freq \in TargetFreqs(apb_freq) :
       \E r \in {spiFrequencyToClockDiv(apb_freq, freq)} :
          call' = [op    |-> "spiFrequencyToClockDiv",
                   ret   |-> "",
                   trace |-> <<>>,
                   in    |-> [apb_freq |-> apb_freq, freq |-> freq],
                   out   |-> [reg |-> r.reg, tried |-> r.tried]]
    /\ UNCHANGED <<clock, delay, variant, crcOn, mode, fifo, packetLength, packetLengthQueried,
                   rawRSSI, rawLQI, regs, lastLengthRead, halVars>>

NextClk ==
    \/ SpiFrequencyToClockDiv
    \/ Return

SpecClk == Init /\ [][NextClk]_vars

-----------------------------------------------------------------------------
(* The HAL instances on one SPI host as a state machine *)

\* instance i and the host at the start of a call
World(i) ==
    [h |-> hal[i], bus |-> bus, trace |-> <<>>, ret |-> "", ok |-> TRUE,
     val |-> 0, buf |-> <<>>, keep |-> TRUE]

\* what a HAL call leaves: the instance, the host and the record of the call
Leaves(i, op, w, arg) ==
    /\ hal' = [hal EXCEPT ![i] = w.h]
    /\ bus' = w.bus
    /\ call' = [op    |-> op,
                ret   |-> w.ret,
                trace |-> w.trace,
                in    |-> [i |-> i, arg |-> arg, hal |-> hal, bus |-> bus,
                           opened |-> opened[i], bracket |-> bracket,
                           lease |-> lease],
                out   |-> [ok |-> w.ok, val |-> w.val, buf |-> w.buf]]


\* hal.init() on instance i
HalInit ==
    /\ call.op = "none"
    /\ \E i \in Instances, fail \in BOOLEAN :
          \* another failure than "already initialized" needs a free host
          /\ (bus.initialized \/ hal[i].halInitialized) => ~fail
          /\ \E w \in {init(World(i), fail)} :
                /\ Leaves(i, "init", w, 0)
                /\ opened' = IF hal[i].halInitialized THEN opened
                             ELSE [opened EXCEPT ![i] = w.ret]
    /\ UNCHANGED <<clock, delay, variant, crcOn, mode, fifo, packetLength, packetLengthQueried,
                   rawRSSI, rawLQI, regs, lastLengthRead, madeBy, lease, bracket>>

\* hal.addSpiDevice(csPin) on instance i
AddSpiDevice ==
    /\ call.op = "none"
    /\ \E i \in Instances, csPin \in {RADIOLIB_NC, 5}, fail \in BOOLEAN :
          /\ (csPin = RADIOLIB_NC \/ ~bus.initialized
                 \/ Cardinality(bus.devices) >= MaxDevices) => ~fail
          /\ \E w \in {addSpiDevice(World(i), csPin, fail)} :
                /\ Leaves(i, "addSpiDevice", w, csPin)
                /\ madeBy' = IF w.ok THEN [madeBy EXCEPT ![w.h.spiDevice] = i]
                             ELSE madeBy
    /\ UNCHANGED <<clock, delay, variant, crcOn, mode, fifo, packetLength, packetLengthQueried,
                   rawRSSI, rawLQI, regs, lastLengthRead, opened, lease, bracket>>

\* hal.term() on instance i
HalTerm ==
    /\ call.op = "none"
    /\ \E i \in Instances, keep \in BOOLEAN :
          \* the lock can only be lost when term removes the device that holds it
          /\ ~keep => (hal[i].halInitialized /\ hal[i].deviceAdded
                           /\ hal[i].spiDevice # 0 /\ bus.holder = hal[i].spiDevice)
          /\ \E w \in {term([World(i) EXCEPT !.keep = keep])} :
                /\ Leaves(i, "term", w, 0)
                /\ opened' = IF hal[i].halInitialized
                             THEN [opened EXCEPT ![i] = "closed"]
                             ELSE opened
                \* a removed device is registered by nobody
                /\ madeBy' = [h \in 1..MaxDevices |->
                                 IF h \in w.bus.devices THEN madeBy[h] ELSE 0]
    /\ UNCHANGED <<clock, delay, variant, crcOn, mode, fifo, packetLength, packetLengthQueried,
                   rawRSSI, rawLQI, regs, lastLengthRead, lease, bracket>>

NextHal ==
    \/ HalInit
    \/ AddSpiDevice
    \/ HalTerm
    \/ Return

SpecHal == Init /\ [][NextHal]_vars

-----------------------------------------------------------------------------
(* Transactions of the HAL instances on the shared SPI host *)

\* longest buffer passed to spiTransfer
MaxXfer == 2

\* a byte the radio driver sends (a status-register read) and the bytes the
\* device answers, 0xFF among them
TxByte == 3 * 16 + 4 + 192
RxBytes == {15, Sentinel0xFF}

\* the acquire and release events of a call
Acquired(w) == \E k \in 1..Len(w.trace) : w.trace[k].op = "spi_device_acquire_bus"
Released(w) == \E k \in 1..Len(w.trace) :
                  w.trace[k].op = "spi_device_release_bus" /\ w.trace[k].b = 1

\* hal.spiBeginTransaction() on instance i; with a device the call returns
\* once the bus is free
BeginTransaction ==
    /\ call.op = "none"
    /\ \E i \in Instances :
          /\ hal[i].spiDevice # 0 => Acquirable(bus)
          /\ \E w \in {spiBeginTransaction(World(i))} :
                /\ Leaves(i, "spiBeginTransaction", w, 0)
                /\ lease' = IF Acquired(w) THEN [lease EXCEPT ![i] = w.h.spiDevice]
                            ELSE lease
                /\ bracket' = [bracket EXCEPT
                                  ![i] = IF hal[i].spiDevice # 0 THEN "held" ELSE "empty"]
    /\ UNCHANGED <<clock, delay, variant, crcOn, mode, fifo, packetLength, packetLengthQueried,
                   rawRSSI, rawLQI, regs, lastLengthRead, opened, madeBy>>

\* hal.spiTransferByte(b) on instance i; with a device the transmission waits
\* while another device holds the bus
TransferByte ==
    /\ call.op = "none"
    /\ \E i \in Instances, fail \in BOOLEAN, rx \in RxBytes :
          /\ hal[i].spiDevice # 0 => Transmittable(bus, hal[i].spiDevice)
          \* nothing fails and nothing is answered unless a byte is transmitted
          /\ hal[i].spiDevice = 0 => (~fail /\ rx = Sentinel0xFF)
          /\ fail => rx = Sentinel0xFF
          /\ \E w \in {spiTransferByte(World(i), TxByte, fail, rx)} :
                Leaves(i, "spiTransferByte", w, [b |-> TxByte, fail |-> fail, rx |-> rx])
    /\ UNCHANGED <<clock, delay, variant, crcOn, mode, fifo, packetLength, packetLengthQueried,
                   rawRSSI, rawLQI, regs, lastLengthRead, opened, madeBy, lease,
                   bracket>>

\* hal.spiTransfer(out, len, in) on instance i, in holding Fill before the call
Transfer ==
    /\ call.op = "none"
    /\ \E i \in Instances, len \in 0..MaxXfer, fail \in BOOLEAN :
       \E rx \in [1..len -> RxBytes] :
          /\ hal[i].spiDevice # 0 => Transmittable(bus, hal[i].spiDevice)
          \* nothing fails and nothing is answered unless bytes are transmitted
          /\ (hal[i].spiDevice = 0 \/ len = 0 \/ fail) =>
                 \A k \in 1..len : rx[k] = Sentinel0xFF
          /\ (hal[i].spiDevice = 0 \/ len = 0) => ~fail
          /\ \E w \in {spiTransfer([World(i) EXCEPT !.buf = [k \in 1..len |-> Fill]],
                                   [k \in 1..len |-> TxByte], len, fail, rx)} :
                Leaves(i, "spiTransfer", w,
                       [len |-> len, fail |-> fail, rx |-> rx,
                        buf |-> [k \in 1..len |-> Fill]])
    /\ UNCHANGED <<clock, delay, variant, crcOn, mode, fifo, packetLength, packetLengthQueried,
                   rawRSSI, rawLQI, regs, lastLengthRead, opened, madeBy, lease,
                   bracket>>

\* hal.spiEndTransaction() on instance i
EndTransaction ==
    /\ call.op = "none"
    /\ \E i \in Instances :
       \E w \in {spiEndTransaction(World(i))} :
          /\ Leaves(i, "spiEndTransaction", w, 0)
          /\ lease' = IF Released(w) THEN [lease EXCEPT ![i] = 0] ELSE lease
          /\ bracket' = [bracket EXCEPT ![i] = "out"]
    /\ UNCHANGED <<clock, delay, variant, crcOn, mode, fifo, packetLength, packetLengthQueried,
                   rawRSSI, rawLQI, regs, lastLengthRead, opened, madeBy>>

\* instance i after init() and, if it is in D, addSpiDevice(5), nothing failing
RECURSIVE Setup(_, _, _)
Setup(st, D, i) ==
    IF i > NumHals THEN st
    ELSE LET w0 == [h |-> st.hal[i], bus |-> st.bus, trace |-> <<>>, ret |-> "",
                    ok |-> TRUE, val |-> 0, buf |-> <<>>, keep |-> TRUE]
             w1 == init(w0, FALSE)
             w2 == IF i \in D THEN addSpiDevice(w1, 5, FALSE) ELSE w1
         IN  Setup([hal    |-> [st.hal EXCEPT ![i] = w2.h],
                    bus    |-> w2.bus,
                    opened |-> [st.opened EXCEPT ![i] = w1.ret],
                    madeBy |-> IF i \in D /\ w2.ok
                               THEN [st.madeBy EXCEPT ![w2.h.spiDevice] = i]
                               ELSE st.madeBy],
                   D, i + 1)

\* every instance is open on the one host and those of some set D have
\* registered their device: the instances' calls of init and addSpiDevice
\* are done, no transaction has begun
InitTxn ==
    /\ variant \in {1, 2}
    /\ crcOn \in BOOLEAN
    /\ mode = "IDLE"
    /\ fifo = <<>>
    /\ packetLength = 0
    /\ packetLengthQueried = FALSE
    /\ rawRSSI = 0
    /\ rawLQI = 0
    /\ lastLengthRead = NoLength
    /\ regs = ResetRegs
    /\ InitTimer
    /\ call = NoCall
    /\ \E D \in SUBSET Instances :
          LET st == Setup([hal    |-> [i \in Instances |-> NewHal],
                           bus    |-> NoBus,
                           opened |-> [i \in Instances |-> "closed"],
                           madeBy |-> [h \in 1..MaxDevices |-> 0]],
                          D, 1)
          IN  /\ hal = st.hal
              /\ bus = st.bus
              /\ opened = st.opened
              /\ madeBy = st.madeBy
    /\ lease = [i \in Instances |-> 0]
    /\ bracket = [i \in Instances |-> "out"]

\* the transactions of instances that stay open
NextTxn ==
    \/ BeginTransaction
    \/ TransferByte
    \/ Transfer
    \/ EndTransaction
    \/ Return

SpecTxn == InitTxn /\ [][NextTxn]_vars

\* the radio driver takes no part in the calls of the HAL
InitBus ==
    /\ Init
    /\ variant = 1
    /\ crcOn = FALSE

\* the calls of every instance in any order
NextBus ==
    \/ HalInit
    \/ AddSpiDevice
    \/ BeginTransaction
    \/ TransferByte
    \/ EndTransaction
    \/ HalTerm
    \/ Return

SpecBus == InitBus /\ [][NextBus]_vars

-----------------------------------------------------------------------------
(* delayMicroseconds of the bit-level HAL against the running clock *)

\* the waited time is counted up to two rounds of the clock
WaitCap == 2 * Period

\* what the delay leaves alone
notTimer == <<variant, crcOn, mode, fifo, packetLength, packetLengthQueried,
              rawRSSI, rawLQI, regs, lastLengthRead, halVars>>

\* the call as the caller sees it return: the clock when the call started and
\* when it returned, and as history the microseconds that went by in between
Delayed(us, m, now, waited) ==
    [op    |-> "delayMicroseconds",
     ret   |-> "",
     trace |-> <<>>,
     in    |-> [us |-> us, m |-> m],
     out   |-> [now |-> now, waited |-> waited]]

\* the clock goes on by a microsecond, whatever the caller is doing
Tick ==
    /\ clock' = (clock + 1) % Period
    /\ delay' = IF delay.pc = "idle" THEN delay
                ELSE [delay EXCEPT !.waited = IF @ < WaitCap THEN @ + 1 ELSE @]
    /\ UNCHANGED <<notTimer, call>>

\* the caller's delayMicroseconds(us): the clock is read, and the call either
\* returns at once or enters one of its loops
DelayMicroseconds ==
    /\ call.op = "none"
    /\ delay.pc = "idle"
    /\ \E us \in 0..(Period - 1) :
       \E d \in {delayMicroseconds(clock, us)} :
          /\ delay' = d
          /\ call' = IF d.pc = "idle" THEN Delayed(us, clock, clock, 0) ELSE call
    /\ UNCHANGED <<clock, notTimer>>

\* one turn of the first loop: the clock is read again; the loop is left
\* for the second one once the clock reads at or below the deadline
OverflowLoop ==
    /\ delay.pc = "overflow"
    /\ delay' = [delay EXCEPT !.now = clock,
                              !.pc  = IF BeforeWrap(clock, delay.e)
                                      THEN "overflow" ELSE "deadline"]
    /\ UNCHANGED <<clock, notTimer, call>>

\* one turn of the second loop: the clock is read again; the call returns
\* once the clock reads at or above the deadline
DeadlineLoop ==
    /\ delay.pc = "deadline"
    /\ IF BeforeDeadline(clock, delay.e)
       THEN /\ delay' = [delay EXCEPT !.now = clock]
            /\ UNCHANGED call
       ELSE /\ delay' = NoDelay
            /\ call' = Delayed(delay.us, delay.m, clock, delay.waited)
    /\ UNCHANGED <<clock, notTimer>>

\* the turn of a loop that leaves it
OverflowExit == OverflowLoop /\ delay'.pc # "overflow"
DeadlineExit == DeadlineLoop /\ delay'.pc # "deadline"

\* the delay does not touch the radio: one variant stands for both
InitDelay ==
    /\ Init
    /\ variant = 1
    /\ crcOn = FALSE

NextDelay ==
    \/ Tick
    \/ DelayMicroseconds
    \/ OverflowLoop
    \/ DeadlineLoop
    \/ Return

\* The clock keeps advancing.  A loop turns many times in a microsecond (its
\* body is one NOP and nothing in it yields), so a loop whose condition is
\* false again and again is left: strong fairness of leaving each loop.
SpecDelay ==
    /\ InitDelay
    /\ [][NextDelay]_vars
    /\ WF_vars(Tick)
    /\ SF_vars(OverflowExit)
    /\ SF_vars(DeadlineExit)

-----------------------------------------------------------------------------
(* Properties of readData *)

IsRead == call.op = "readData"

\* the bytes the FIFO reads of the call return, in order, when no flush
\* intervenes: the queued frame, or indeterminate bytes if nothing is queued
InStream == IF call.in.fifo # <<>> THEN call.in.fifo ELSE call.in.garbage

\* the declared length: the first byte the call reads from the FIFO
LenByte == InStream[1]

\* the LQI/CRC byte that ends the frame queued when the call started
TrailingStatus == call.in.fifo[Len(call.in.fifo)]

ValidLength(L) == L >= 1 /\ L <= MAX_PACKET_LENGTH

\* events that command a chip mode
ModeOps == {"startReceive", "standby", "CMD_RX", "CMD_IDLE", "setFrequency"}

\* index of the last mode command of a trace, 0 if there is none
LastModeIdx(tr) ==
    LET S == {i \in 1..Len(tr) : tr[i].op \in ModeOps}
    IN  IF S = {} THEN 0 ELSE CHOOSE i \in S : \A j \in S : j <= i

\* C1: a declared length of 0 or above the maximum makes readData return the
\* invalid-payload failure, deliver nothing and leave receive mode re-armed,
\* in both variants.
C1_InvalidLengthRejected ==
    (IsRead /\ ~ValidLength(LenByte)) =>
        /\ call.ret = "ERR_INVALID_PAYLOAD"
        /\ call.out.data = FreshBuf
        /\ mode = "RX"

\* C2: every readData call, whatever it returns, issues startReceive and no
\* mode command after it, so the chip is in receive mode at the return.
C2_ReadDataRearms ==
    IsRead =>
        /\ LastModeIdx(call.trace) > 0
        /\ call.trace[LastModeIdx(call.trace)].op = "startReceive"
        /\ mode = "RX"

C2_Witness ==
    /\ IsRead
    /\ call.ret = "ERR_CRC_MISMATCH"
    /\ mode = "RX"

\* C3: for a queued frame of valid length, readData returns the checksum
\* failure exactly when bit 7 of the frame's trailing status byte is 0 and
\* crcOn is set; with crcOn clear it returns success and the payload.
C3_CrcDecision ==
    (IsRead /\ call.in.fifo # <<>> /\ ValidLength(LenByte)) =>
        /\ (call.ret = "ERR_CRC_MISMATCH") <=> (~Bit7(TrailingStatus) /\ crcOn)
        /\ ~crcOn =>
              /\ call.ret = "ERR_NONE"
              /\ \A i \in 1..Min(LenByte, call.in.len) :
                    call.out.data[i] = call.in.fifo[i + 1]

C5_ReadLengthClamped ==
    IsRead =>
        /\ call.out.nread = Min(LenByte, call.in.len)
        /\ \A k \in 1..Len(call.trace) :
              (call.trace[k].op = "readBurst" /\ call.trace[k].b # 1)
                  => call.trace[k].b = Min(LenByte, call.in.len)
        /\ \A i \in 1..BufSize :
              /\ i <= call.out.nread => call.out.data[i] # Fill
              /\ i > call.out.nread => call.out.data[i] = Fill

C5_Witness ==
    /\ IsRead
    /\ call.in.len >= 1
    /\ LenByte > call.in.len
    /\ call.out.nread = call.in.len
    /\ call.out.data[call.in.len] # Fill

-----------------------------------------------------------------------------
(* Properties of scanRSSI *)

IsScan == call.op = "scanRSSI"

\* the call passed the parameter validation
ScanRan == IsScan /\ ~call.in.bufNull /\ call.in.n # 0

\* the positions in the trace of the events named by ops, in order
RECURSIVE Positions(_, _, _)
Positions(tr, ops, k) ==
    IF k > Len(tr) THEN <<>>
    ELSE IF tr[k].op \in ops THEN <<k>> \o Positions(tr, ops, k + 1)
    ELSE Positions(tr, ops, k + 1)

\* where the call programmed a frequency, successfully or not
Attempts == Positions(call.trace, {"setFrequency", "setFrequencyFailed"}, 1)

Stores(i) == {k \in 1..Len(call.trace) :
                 call.trace[k].op = "store" /\ call.trace[k].a = i}

RssiReads == {k \in 1..Len(call.trace) :
                 call.trace[k].op = "readBurst" /\ call.trace[k].a \in {RssiRegV1, RssiRegV2}}

\* C6: scanRSSI with a null output buffer or with num_points = 0 returns the
\* invalid-parameters failure and touches neither the chip nor the buffer: no
\* command, no frequency programming, no mode change, no delay, no store.
C6_ScanRejectsBadParams ==
    (IsScan /\ (call.in.bufNull \/ call.in.n = 0)) =>
        /\ call.ret = "ERR_INVALID_RSSI_OFFSET"
        /\ call.trace = <<>>
        /\ mode = call.in.mode
        /\ call.out.values = FreshOut(call.in.bufNull)

C6_Witness ==
    /\ IsScan
    /\ ~call.in.bufNull
    /\ call.in.n = 0
    /\ call.in.mode = "RX"
    /\ call.ret = "ERR_INVALID_RSSI_OFFSET"

\* C7: scanRSSI programs exactly num_points frequencies in increasing order,
\* the i-th being center - (num_points/2)*step + i*step; with num_points = 5,
\* center = 433.0 MHz and step = 250 kHz these are 432.5, 432.75, 433.0,
\* 433.25 and 433.5 MHz.
C7_ScanFrequencies ==
    ScanRan =>
        /\ Len(Attempts) = call.in.n
        /\ \A i \in 1..Len(Attempts) :
              2 * call.trace[Attempts[i]].a =
                  2 * call.in.center - call.in.n * stepMhz(call.in.step)
                      + 2 * (i - 1) * stepMhz(call.in.step)
        /\ \A i \in 1..(Len(Attempts) - 1) :
              call.trace[Attempts[i]].a < call.trace[Attempts[i + 1]].a
        /\ (call.in.n = 5 /\ call.in.center = 433000000 /\ call.in.step = 250) =>
              [i \in 1..Len(Attempts) |-> call.trace[Attempts[i]].a]
                  = <<432500000, 432750000, 433000000, 433250000, 433500000>>

\* C8: every frequency that was programmed successfully is followed, in this
\* order, by the RX command, the dwell wait and the RSSI read of that point.
C8_RxAfterEachFrequency ==
    ScanRan =>
        \A k \in 1..Len(call.trace) :
            call.trace[k].op = "setFrequency" =>
                /\ k + 3 <= Len(call.trace)
                /\ call.trace[k + 1].op = "CMD_RX"
                /\ call.trace[k + 2].op = "delay"
                /\ (k + 3) \in RssiReads

\* C9: a point whose frequency programming fails gets the sentinel and no
\* RSSI read, the next point is tried at the next frequency and the scan
\* returns success; each index 0..num_points-1 is stored exactly once, with
\* the sentinel or with the conversion of the register read at that point.
C9_FailedPointSentinel ==
    ScanRan =>
        /\ call.ret = "ERR_NONE"
        /\ Len(Attempts) = call.in.n
        /\ \A i \in 1..call.in.n :
              LET k == Attempts[i]
                  want == IF call.in.oks[i] THEN convertRSSI(call.in.raws[i])
                          ELSE Sentinel
              IN  /\ (call.trace[k].op = "setFrequency") <=> call.in.oks[i]
                  /\ call.trace[k].a = startFreq(call.in.center, call.in.n, call.in.step)
                                          + (i - 1) * stepMhz(call.in.step)
                  /\ Cardinality(Stores(i - 1)) = 1
                  /\ \A j \in Stores(i - 1) :
                        /\ call.trace[j].b = want
                        /\ j > k
                        /\ i < call.in.n => j < Attempts[i + 1]
                        /\ ~call.in.oks[i] => j = k + 1
                  /\ call.out.values[i] = want
        /\ Cardinality(RssiReads) = Cardinality({i \in 1..call.in.n : call.in.oks[i]})
        /\ \A i \in (call.in.n + 1)..MaxPoints :
              Stores(i - 1) = {} /\ call.out.values[i] = Fill

C9_Witness ==
    /\ ScanRan
    /\ call.in.n >= 3
    /\ ~call.in.oks[2]
    /\ call.in.oks[3]
    /\ call.out.values[2] = Sentinel
    /\ call.out.values[3] = convertRSSI(call.in.raws[3])
    /\ call.ret = "ERR_NONE"

\* C10: a scan that passes the parameter validation has standby as its last
\* mode command and leaves the chip idle, also when points failed.
C10_ScanEndsInStandby ==
    ScanRan =>
        /\ LastModeIdx(call.trace) > 0
        /\ call.trace[LastModeIdx(call.trace)].op = "standby"
        /\ mode = "IDLE"

C10_Witness ==
    /\ ScanRan
    /\ call.in.n >= 2
    /\ \A i \in 1..call.in.n : ~call.in.oks[i]
    /\ call.in.mode = "RX"
    /\ mode = "IDLE"

-----------------------------------------------------------------------------
(* Properties of the dwell time, of convertRSSI, getRSSI and getPacketLength *)

Delays == {k \in 1..Len(call.trace) : call.trace[k].op = "delay"}

\* C11: at every scan point whose frequency was programmed scanRSSI waits
\* once, and every wait is the requested dwell time clamped into
\* [500, 50000] us: 500 for less, 50000 for more, the request itself inside.
C11_DwellClamped ==
    ScanRan =>
        /\ \A k \in Delays :
              /\ call.in.dwell < 500 => call.trace[k].a = 500
              /\ call.in.dwell > 50000 => call.trace[k].a = 50000
              /\ (call.in.dwell >= 500 /\ call.in.dwell <= 50000) =>
                    call.trace[k].a = call.in.dwell
        /\ \A i \in 1..Len(Attempts) :
              LET k    == Attempts[i]
                  next == IF i < Len(Attempts) THEN Attempts[i + 1]
                          ELSE Len(call.trace) + 1
              IN  Cardinality({j \in Delays : k < j /\ j < next})
                      = IF call.trace[k].op = "setFrequency" THEN 1 ELSE 0

C11_Witness ==
    /\ ScanRan
    /\ call.in.dwell > 50000
    /\ call.in.n >= 2
    /\ call.in.oks[1]
    /\ ~call.in.oks[2]
    /\ Cardinality(Delays) = 1
    /\ \A k \in Delays : call.trace[k].a = 50000

IsConv == call.op = "convertRSSI"

\* C12: for every raw byte r the conversion is (r/2) - 74 dBm when r < 128
\* and ((r - 256)/2) - 74 dBm when r >= 128, exact in half dB; at the seam
\* r = 127 gives -10.5 dBm by the first formula and r = 128 gives -138 dBm by
\* the second.  Values are in half dB: twice the dBm value.
C12_ConvertRSSI ==
    IsConv =>
        LET r == call.in.rssi_raw
            v == call.out.val
        IN  /\ r < 128 => v = r - 2 * 74
            /\ r >= 128 => v = (r - 256) - 2 * 74
            /\ r = 127 => v = 0 - 21
            /\ r = 128 => v = 0 - 276

C12_Witness ==
    /\ IsConv
    /\ call.in.rssi_raw = 128
    /\ call.out.val = 0 - 276

IsGetRSSI == call.op = "getRSSI"

IsGetLen == call.op = "getPacketLength"

LengthReads == {k \in 1..Len(call.trace) :
                   call.trace[k].op = "readBurst"
                       /\ call.trace[k].a \in {FifoRegV1, FifoRegV2}}

\* C14: getPacketLength(update) reads the FIFO, once, when update is set or
\* no length is cached; otherwise it makes no SPI access and returns the
\* cached length, which is what the latest FIFO length read returned.
C14_CachedLength ==
    IsGetLen =>
        IF call.in.update \/ ~call.in.packetLengthQueried
        THEN Cardinality(LengthReads) = 1
        ELSE /\ call.trace = <<>>
             /\ call.out.val = call.in.packetLength
             /\ call.out.val = call.in.lastLengthRead

-----------------------------------------------------------------------------
(* Properties of spiFrequencyToClockDiv *)

IsClk == call.op = "spiFrequencyToClockDiv"

\* the frequency the returned register decodes to
Decoded == ClkRegToFreq(call.in.apb_freq, call.out.reg)

\* the frequencies of the registers the search tried
TriedFreqs ==
    {ClkRegToFreq(call.in.apb_freq, call.out.tried[k]) : k \in 1..Len(call.out.tried)}

CandidateAt(k, PerCounter, FirstOffset) ==
    LET n      == 1 + (k - 1) \div PerCounter
        calPre == ((call.in.apb_freq \div (n + 1)) \div call.in.freq) - 1
                      + FirstOffset + ((k - 1) % PerCounter)
        pre    == IF calPre > 8191 THEN 8191 ELSE IF calPre < 0 THEN 0 ELSE calPre
    IN  ClkReg((n + 1) \div 2, n, pre, 0)

\* the positions of the candidates that decode exactly to the target
ExactAt ==
    {k \in 1..Len(call.out.tried) :
        ClkRegToFreq(call.in.apb_freq, call.out.tried[k]) = call.in.freq}

\* the search ran: the target is neither at or above the bus clock nor below
\* the lowest frequency the divider reaches
Searched ==
    /\ IsClk
    /\ call.in.freq < call.in.apb_freq
    /\ call.in.freq >= ClkRegToFreq(call.in.apb_freq, minFreqReg)

\* the candidates are the PerCounter variations of counters 1, 2, ... in
\* order, all of them up to counter 63 when none is exact, and otherwise up
\* to the first exact one, which is returned
SearchOrder(PerCounter, FirstOffset) ==
    /\ \A k \in 1..Len(call.out.tried) :
          call.out.tried[k] = CandidateAt(k, PerCounter, FirstOffset)
    /\ IF ExactAt = {}
       THEN Len(call.out.tried) = 63 * PerCounter
       ELSE /\ ExactAt = {Len(call.out.tried)}
            /\ call.out.reg = call.out.tried[Len(call.out.tried)]

\* C26 as stated: three prescaler candidates per counter value (naive
\* prescaler minus one, itself, plus one), clamped into 0..8191, the search
\* stopping at the first exact candidate, which is returned.
C26_ThreeCandidates ==
    Searched => SearchOrder(3, 0 - 1)

\* C26: for each counter value 1..63 the search evaluates four prescaler
\* candidates in order (the naive prescaler busClock / (counter + 1) / f - 1
\* offset by -1, 0, +1 and +2), each clamped into 0..8191, and the whole
\* search stops at the first candidate that decodes exactly to the target,
\* whose encoding is the one returned.
C26_FourCandidates ==
    Searched => SearchOrder(4, 0 - 1)

\* an exact candidate was found after the first counter value and returned
C26_Witness ==
    /\ Searched
    /\ Len(call.out.tried) > 4
    /\ ExactAt = {Len(call.out.tried)}
    /\ Decoded = call.in.freq

\* C32: for every target f from busClock / (8192 * 64) up to, but not
\* including, the bus clock the returned encoding has a counter in 1..63, a
\* prescaler in 0..8191 and the bypass bit clear, is not the all-zero
\* register, and decodes to a frequency that does not exceed f.
C32_NeverFasterThanAsked ==
    Searched =>
        /\ call.out.reg.clkcnt_n \in 1..63
        /\ call.out.reg.clkdiv_pre \in 0..8191
        /\ call.out.reg.clk_equ_sysclk = 0
        /\ call.out.reg # ClkReg(0, 0, 0, 0)
        /\ Decoded > 0
        /\ Decoded <= call.in.freq

\* the lowest target of the range: every candidate of the counters below 63
\* is clamped and decodes above the target, counter 63 with prescaler 8191
\* is returned
C32_Witness ==
    /\ Searched
    /\ call.in.freq = ClkRegToFreq(call.in.apb_freq, minFreqReg)
    /\ Len(call.out.tried) > 4 * 62
    /\ \A k \in 1..(4 * 62) :
          ClkRegToFreq(call.in.apb_freq, call.out.tried[k]) > call.in.freq
    /\ call.out.reg = ClkReg(32, 63, 8191, 0)

-----------------------------------------------------------------------------
(* Properties of packetMode and setOOK *)

IsPkt == call.op = "packetMode"

Writes(reg) == {k \in 1..Len(call.trace) :
                   call.trace[k].op = "SPIsetRegValue" /\ call.trace[k].a = reg}

\* C16: after a successful packetMode PKTCTRL1 has bits 7-5 = 000, bit 3 = 0
\* (CRC auto-flush off), bit 2 = 1 (append status) and bits 1-0 = 00.
C16_PktCtrl1Bits ==
    (IsPkt /\ call.ret = "ERR_NONE") =>
        /\ Bits(regs[REG_PKTCTRL1], 7, 5) = 0
        /\ Bits(regs[REG_PKTCTRL1], 3, 3) = 0
        /\ Bits(regs[REG_PKTCTRL1], 2, 2) = 1
        /\ Bits(regs[REG_PKTCTRL1], 1, 0) = 0

\* C17: after a successful packetMode PKTCTRL0 has bits 1-0 = 01 and bits 7-2
\* as before the call, whatever the register held, and the call wrote
\* PKTCTRL0 exactly once.
C17_PktCtrl0 ==
    (IsPkt /\ call.ret = "ERR_NONE") =>
        /\ Bits(regs[REG_PKTCTRL0], 1, 0) = 1
        /\ Bits(regs[REG_PKTCTRL0], 7, 2) = Bits(call.in.regs[REG_PKTCTRL0], 7, 2)
        /\ Cardinality(Writes(REG_PKTCTRL0)) = 1

C17_Witness ==
    /\ IsPkt
    /\ call.ret = "ERR_NONE"
    /\ Bits(call.in.regs[REG_PKTCTRL0], 7, 2) = 63
    /\ Bits(call.in.regs[REG_PKTCTRL0], 1, 0) = 2
    /\ regs[REG_PKTCTRL0] = 253

IsOok == call.op = "setOOK"

\* MDMCFG2 as the generic setup of the call left it
Generic == call.trace[1].b

-----------------------------------------------------------------------------
(* Properties of the HAL instances on one SPI host *)

IsTerm == call.op = "term"

\* the calls of spi_bus_free in the trace, and those that freed the host
Frees == {k \in 1..Len(call.trace) : call.trace[k].op = "spi_bus_free"}
Freed == {k \in Frees : call.trace[k].a = 1}

\* C19: term calls spi_bus_free exactly when the spi_bus_initialize of this
\* instance's open succeeded, and not at all when the open found the host
\* initialized (the host is then as initialized after term as before) or when
\* the instance is not open; after term the instance no longer owns the host,
\* so one open frees at most once.  An instance owns the host only while it
\* is open and its own spi_bus_initialize succeeded.
C19_FreeOnlyOwnBus ==
    /\ \A i \in Instances :
          hal[i].busInitialized => (hal[i].halInitialized /\ opened[i] = "ESP_OK")
    /\ IsTerm =>
          /\ Cardinality(Frees) = IF call.in.opened = "ESP_OK" THEN 1 ELSE 0
          /\ call.in.opened # "ESP_OK" => bus.initialized = call.in.bus.initialized
          /\ ~hal[call.in.i].busInitialized
          /\ ~hal[call.in.i].halInitialized
          /\ opened[call.in.i] = "closed"

\* an instance that found the host initialized and added a device closes
C19_Witness ==
    /\ IsTerm
    /\ call.in.opened = "ESP_ERR_INVALID_STATE"
    /\ call.in.hal[call.in.i].deviceAdded
    /\ Frees = {}
    /\ bus.initialized

\* C20: a term of one instance never frees the host while another instance
\* is open or has a device registered.
C20_NoFreeWhileShared ==
    (IsTerm /\ Freed # {}) =>
        \A j \in Instances \ {call.in.i} :
            ~hal[j].halInitialized /\ ~hal[j].deviceAdded

\* the register reads a call made, as positions of its trace
BurstReads == {k \in 1..Len(call.trace) : call.trace[k].op = "readBurst"}

C24_TrailingBytes ==
    (IsRead /\ call.in.fifo # <<>> /\ ValidLength(LenByte)) =>
        /\ rawRSSI = call.in.fifo[LenByte + 2]
        /\ rawLQI = Low7(call.in.fifo[LenByte + 3])
        /\ (call.ret = "ERR_CRC_MISMATCH") <=>
               (crcOn /\ ~Bit7(call.in.fifo[LenByte + 3]))

\* the startReceive commands a call issued, as positions of its trace
Rearms == {k \in 1..Len(call.trace) : call.trace[k].op = "startReceive"}

\* C25: every readData call issues startReceive exactly once, on every path
\* (success, invalid length, checksum mismatch): no second re-arm, no retry.
C25_RearmsOnce ==
    IsRead => Cardinality(Rearms) = 1

-----------------------------------------------------------------------------
(* Properties of the transactions on the shared SPI host *)

IsXferByte == call.op = "spiTransferByte"
IsXfer == call.op = "spiTransfer"
IsEnd == call.op = "spiEndTransaction"

\* the device handle the instance of the call had when the call started
CallDevice == call.in.hal[call.in.i].spiDevice

\* the transmissions the call submitted to the driver, as positions of its trace
Transmits == {k \in 1..Len(call.trace) :
                call.trace[k].op = "spi_device_polling_transmit"}

\* C21: with several devices on one host, each bracketing its transfers with
\* spiBeginTransaction / spiEndTransaction, at most one instance is inside a
\* transaction it began with its device, that instance holds the bus for its
\* device, and no other instance gets a transmission onto the bus while it is
\* inside: the bytes of two transactions are never interleaved.
C21_MutualExclusion ==
    /\ \A i, j \in Instances :
          (i # j /\ bracket[i] = "held") => bracket[j] # "held"
    /\ \A i \in Instances :
          bracket[i] = "held" => (hal[i].spiDevice # 0 /\ bus.holder = hal[i].spiDevice)
    /\ ((IsXferByte \/ IsXfer) /\ Transmits # {}) =>
          \A j \in Instances \ {call.in.i} : call.in.bracket[j] # "held"

\* an instance transmits inside its transaction while another instance has a
\* device on the same host
C21_Witness ==
    /\ IsXferByte
    /\ Transmits # {}
    /\ call.in.bracket[call.in.i] = "held"
    /\ bus.holder = CallDevice
    /\ \E j \in Instances \ {call.in.i} : hal[j].spiDevice # 0

\* C22: spiTransferByte returns 0xFF and submits nothing when the instance has
\* no device handle; with a handle it submits one transmission of the byte and
\* returns 0xFF when the submission fails and the byte received otherwise.
C22_SentinelOrReceived ==
    IsXferByte =>
        IF CallDevice = 0
        THEN call.out.val = Sentinel0xFF /\ Transmits = {}
        ELSE /\ Cardinality(Transmits) = 1
             /\ \A k \in Transmits :
                   call.trace[k].a = CallDevice /\ call.trace[k].b = call.in.arg.b
             /\ call.out.val = IF call.in.arg.fail THEN Sentinel0xFF
                               ELSE call.in.arg.rx

\* a byte other than 0xFF was received and returned
C22_Witness ==
    /\ IsXferByte
    /\ CallDevice # 0
    /\ ~call.in.arg.fail
    /\ call.in.arg.rx # Sentinel0xFF
    /\ call.out.val = call.in.arg.rx

\* C27: across the calls of an instance every acquire of the bus is matched
\* by a release: an instance outside a transaction has no acquire left
\* unreleased, and the release spiEndTransaction issues at the end of a
\* transaction is for a device that holds the bus.
C27_LeaseBalanced ==
    /\ \A i \in Instances : bracket[i] = "out" => lease[i] = 0
    /\ (IsEnd /\ call.in.bracket[call.in.i] # "out") =>
          \A k \in 1..Len(call.trace) :
              call.trace[k].op = "spi_device_release_bus" =>
                  call.in.bus.holder = call.trace[k].a

\* the devices on the host that instance i registered
DevicesOf(i) == {h \in bus.devices : madeBy[h] = i}

\* C28: an instance has at most one device registered at a time, and none
\* once it is closed: after term no device that the instance registered is
\* left on the host, and a host that was freed holds no device.
C28_NoDeviceLeftRegistered ==
    /\ \A i \in Instances : Cardinality(DevicesOf(i)) <= 1
    /\ IsTerm => DevicesOf(call.in.i) = {}
    /\ ~bus.initialized => bus.devices = {}

\* C29: a transfer that fails (no device registered, or the submission
\* rejected) hands a failure back to its caller: spiTransferByte the 0xFF
\* result, spiTransfer, whose only output is the receive buffer, a buffer that
\* differs from the one it was given.
C29_FailureReturned ==
    /\ (IsXferByte /\ (CallDevice = 0 \/ call.in.arg.fail)) =>
          call.out.val = Sentinel0xFF
    /\ (IsXfer /\ call.in.arg.len > 0 /\ (CallDevice = 0 \/ call.in.arg.fail)) =>
          call.out.buf # call.in.arg.buf

-----------------------------------------------------------------------------
(* Properties of delayMicroseconds *)

IsDelay == call.op = "delayMicroseconds"

\* a delayMicroseconds call is in one of its loops
Waiting == delay.pc # "idle"

\* the call returned with at least the microseconds asked for gone by
WaitedLongEnough == IsDelay => call.out.waited >= call.in.us

\* a call for zero microseconds returned with the clock as it found it
ZeroAtOnce ==
    (IsDelay /\ call.in.us = 0) =>
        /\ call.out.waited = 0
        /\ call.out.now = call.in.m

\* the second loop of a wrapped deadline is entered only with the clock read
\* at or below the deadline, that is after the clock itself wrapped
WrapFirst ==
    (delay.pc = "deadline" /\ delay.m > delay.e) =>
        /\ delay.now <= delay.e
        /\ delay.waited >= Period - delay.m

\* C31: delayMicroseconds(us) returns only once the clock has reached
\* start + us, whatever the start value, those where start + us wraps past
\* the clock's maximum included (the clock itself has wrapped before the
\* deadline is waited for); it returns at once for us = 0; and every call
\* returns, provided the clock keeps advancing.
C31_DelayReachesDeadline ==
    /\ [](WaitedLongEnough /\ ZeroAtOnce /\ WrapFirst)
    /\ (Waiting ~> ~Waiting)

\* a call whose deadline wrapped has returned, right at the deadline
C31_Witness ==
    /\ IsDelay
    /\ call.in.us > 0
    /\ call.in.m + call.in.us >= Period
    /\ call.out.now = Deadline(call.in.m, call.in.us)
    /\ call.out.waited = call.in.us

====
